---------------------------- MODULE Spec2Model ----------------------------
(***************************************************************************)
(* Model of src/main.py: class PlanoDeCorte (the cutting-plane loop        *)
(* `resolver`, the integrality test `es_entero`) and the top-level script  *)
(* that reads a problem, runs the loop and reports.                        *)
(*                                                                         *)
(* Numbers.  The program computes with floating-point reals.  The model    *)
(* computes with exact rationals <<num, den>> (den > 0, lowest terms), so  *)
(* that 3.5, 2.999999 and the tolerance 1e-5 are the values they denote.   *)
(* Vectors are sequences of rationals, matrices sequences of rows.         *)
(* Python indices are 0-based: component i of the program is element i+1   *)
(* of the sequence, and the index variables keep the program's values      *)
(* (-1 for "none").                                                        *)
(***************************************************************************)
EXTENDS Integers, Sequences, FiniteSets, TLC

---------------------------------------------------------------------------
(* Exact rational arithmetic (the program's float arithmetic).             *)

RECURSIVE Gcd(_, _)
Gcd(x, y) == IF y = 0 THEN x ELSE Gcd(y, x % y)

IAbs(k) == IF k < 0 THEN -k ELSE k

\* the rational n/d (d # 0) in lowest terms with a positive denominator
Rat(n, d) ==
    LET g == Gcd(IAbs(n), IAbs(d))
        s == IF d < 0 THEN -1 ELSE 1
    IN  <<(s * n) \div g, (s * d) \div g>>

Num(k) == <<k, 1>>
Zero == Num(0)

RNeg(x) == <<-x[1], x[2]>>

RAdd(x, y) ==
    LET g == Gcd(x[2], y[2])
    IN  Rat(x[1] * (y[2] \div g) + y[1] * (x[2] \div g), (x[2] \div g) * y[2])

RSub(x, y) == RAdd(x, RNeg(y))

RMul(x, y) ==
    LET g1 == Gcd(IAbs(x[1]), y[2])
        g2 == Gcd(IAbs(y[1]), x[2])
    IN  IF x[1] = 0 \/ y[1] = 0 THEN Zero
        ELSE Rat((x[1] \div g1) * (y[1] \div g2), (x[2] \div g2) * (y[2] \div g1))

\* x / y, y # 0
RDiv(x, y) == RMul(x, Rat(y[2], y[1]))

RLess(x, y) ==
    LET g == Gcd(x[2], y[2])
    IN  x[1] * (y[2] \div g) < y[1] * (x[2] \div g)

RLeq(x, y) == ~RLess(y, x)

RAbs(x) == <<IAbs(x[1]), x[2]>>

\* np.floor
Floor(x) == Num(x[1] \div x[2])

\* np.round: to the nearest integer, a tie (fraction exactly 1/2) to the even one
Round(x) ==
    LET f  == x[1] \div x[2]
        r2 == 2 * (x[1] % x[2])
    IN  IF r2 < x[2] THEN Num(f)
        ELSE IF r2 > x[2] THEN Num(f + 1)
        ELSE IF f % 2 = 0 THEN Num(f) ELSE Num(f + 1)

RECURSIVE Dot(_, _)
Dot(u, v) ==
    IF u = <<>> THEN Zero
    ELSE RAdd(RMul(Head(u), Head(v)), Dot(Tail(u), Tail(v)))

---------------------------------------------------------------------------
(* es_entero and the scan for the most fractional component.               *)

\* the literal 1e-5 of es_entero and of the scan
Epsilon == Rat(1, 100000)

\* np.any in place of np.all
es_entero_any(solucion) ==
    \E i \in 1..Len(solucion) :
        RLess(RAbs(RSub(solucion[i], Round(solucion[i]))), Epsilon)

\* the comparison the wrong way round
es_entero_invertido(solucion) ==
    \A i \in 1..Len(solucion) :
        RLess(Epsilon, RAbs(RSub(solucion[i], Round(solucion[i]))))

\* np.all(np.abs(solucion - np.round(solucion)) < 1e-5)
es_entero(solucion) ==
    \A i \in 1..Len(solucion) :
        RLess(RAbs(RSub(solucion[i], Round(solucion[i]))), Epsilon)

\* fraccion = solucion[i] - np.floor(solucion[i])
Fraccion(x) == RSub(x, Floor(x))

\* the scan with `fraccion >= max_frac`: the last of several equal maxima wins
RECURSIVE ScanUltimo(_, _, _)
ScanUltimo(solucion, i, st) ==
    IF i >= Len(solucion) THEN st
    ELSE LET fraccion == RSub(solucion[i + 1], Floor(solucion[i + 1]))
         IN  IF RLess(Epsilon, fraccion) /\ RLeq(st[2], fraccion)
             THEN ScanUltimo(solucion, i + 1, <<i, fraccion>>)
             ELSE ScanUltimo(solucion, i + 1, st)

\* The scan, as a loop over i = 0 .. len(solucion)-1 carrying
\* (fila_fraccionaria_idx, max_frac); st = <<idx, max_frac>>.
RECURSIVE Scan(_, _, _)
Scan(solucion, i, st) ==
    IF i >= Len(solucion) THEN st
    ELSE LET fraccion == Fraccion(solucion[i + 1])
         IN  IF RLess(Epsilon, fraccion) /\ RLess(st[2], fraccion)
             THEN Scan(solucion, i + 1, <<i, fraccion>>)
             ELSE Scan(solucion, i + 1, st)

\* fila_fraccionaria_idx after the scan (-1: none found)
Seleccionar(solucion) == Scan(solucion, 0, <<-1, Num(-1)>>)[1]

---------------------------------------------------------------------------
(* np.linalg.inv: raises LinAlgError unless the matrix is square and       *)
(* non-singular.                                                           *)

NRows(M) == Len(M)

DropAt(s, k) == [i \in 1..(Len(s) - 1) |-> IF i < k THEN s[i] ELSE s[i + 1]]

\* M without row r and column k
Minor(M, r, k) == [i \in 1..(Len(M) - 1) |-> DropAt(DropAt(M, r)[i], k)]

Sign(k) == IF k % 2 = 0 THEN Num(1) ELSE Num(-1)

RECURSIVE Det(_)
RECURSIVE DetSum(_, _)
\* cofactor expansion along the first row, columns k..n
DetSum(M, k) ==
    IF k > Len(M) THEN Zero
    ELSE RAdd(RMul(RMul(Sign(1 + k), M[1][k]), Det(Minor(M, 1, k))),
              DetSum(M, k + 1))
Det(M) == IF Len(M) = 0 THEN Num(1) ELSE DetSum(M, 1)

IsSquare(M) == NRows(M) > 0 /\ \A i \in 1..Len(M) : Len(M[i]) = Len(M)

\* TRUE iff np.linalg.inv(M) returns instead of raising LinAlgError
Invertible(M) == IsSquare(M) /\ Det(M) # Zero

\* the inverse: adjugate over determinant
Inv(M) ==
    LET d == Det(M)
        n == Len(M)
    IN  [i \in 1..n |->
            [j \in 1..n |-> RDiv(RMul(Sign(i + j), Det(Minor(M, j, i))), d)]]

MatVec(M, v) == [i \in 1..Len(M) |-> Dot(M[i], v)]

---------------------------------------------------------------------------
(* The relaxation solver, linprog(c=-self.c, A_ub=self.A, b_ub=self.b):    *)
(* minimise -c.x, i.e. maximise c.x, subject to A x <= b and the default   *)
(* bounds x >= 0.  An answer is [success, x, fun]; fun is the value the    *)
(* program reports, -resultado.fun = c.x.                                  *)

Fallo == [success |-> FALSE, x |-> <<>>, fun |-> Zero]
Optimo(c, x) == [success |-> TRUE, x |-> x, fun |-> Dot(c, x)]

Unit(n, k) == [j \in 1..n |-> IF j = k THEN Num(1) ELSE Zero]

\* the rows of A x <= b followed by the bounds -x_k <= 0
FilasG(A, n) == A \o [k \in 1..n |-> [j \in 1..n |-> RNeg(Unit(n, k)[j])]]
LadosH(b, n) == b \o [k \in 1..n |-> Zero]

\* the increasing sequences of k indices among lo..hi
RECURSIVE Combos(_, _, _)
Combos(k, lo, hi) ==
    IF k = 0 THEN {<<>>}
    ELSE IF lo > hi THEN {}
    ELSE {<<lo>> \o t : t \in Combos(k - 1, lo + 1, hi)}
             \cup Combos(k, lo + 1, hi)

Pick(s, ks) == [i \in 1..Len(ks) |-> s[ks[i]]]

Factible(G, h, v) == \A i \in 1..Len(G) : RLeq(Dot(G[i], v), h[i])

\* the vertices of { v : G v <= h } in dimension n: the feasible points where
\* n linearly independent rows are tight
Vertices(G, h, n) ==
    LET bases == {ks \in Combos(n, 1, Len(G)) : Invertible(Pick(G, ks))}
        pts   == {MatVec(Inv(Pick(G, ks)), Pick(h, ks)) : ks \in bases}
    IN  {v \in pts : Factible(G, h, v)}

\* an improving direction of the recession cone: d >= 0, A d <= 0, c.d > 0,
\* looked for among the vertices of the cone cut by d_1 + ... + d_n <= 1
NoAcotado(c, A, n) ==
    LET G == FilasG(A, n) \o << [j \in 1..n |-> Num(1)] >>
        h == [i \in 1..(Len(A) + n) |-> Zero] \o << Num(1) >>
    IN  \E d \in Vertices(G, h, n) : RLess(Zero, Dot(c, d))

\* the points of vs where c.x is largest
Maximos(c, vs) == {w \in vs : \A u \in vs : RLeq(Dot(c, u), Dot(c, w))}

\* the answers of a solver that returns a true optimum (an optimal vertex),
\* or reports failure when the relaxation is infeasible or unbounded
RespuestasExactas(c, A, b) ==
    LET n  == Len(c)
        vs == Vertices(FilasG(A, n), LadosH(b, n), n)
    IN  IF vs = {} THEN {Fallo}
        ELSE IF NoAcotado(c, A, n) THEN {Fallo}
        ELSE {Optimo(c, v) : v \in Maximos(c, vs)}

---------------------------------------------------------------------------
(* Bounds of the model and the inputs drawn within them.                   *)

\* entries of the constraint matrix range over 0..MaxCoef
MaxCoef == 2

\* numbers of variables and of constraints read by the script
Dimensiones == {1, 2}

Vectores(n, vals) == [1..n -> vals]
Matrices(m, n, vals) == [1..m -> [1..n -> vals]]

Problemas(cvals, avals, bvals) ==
    UNION { { [c |-> c, A |-> A, b |-> b] :
                c \in Vectores(n, cvals), A \in Matrices(m, n, avals),
                b \in Vectores(m, bvals) } :
            n \in Dimensiones, m \in Dimensiones }

Coefs == {Num(k) : k \in 0..MaxCoef}
\* objective coefficients
Objs  == {Num(1), Num(2)}

\* inputs of the runs against an arbitrary solver, whose answer does not
\* depend on c and b
ProblemasLibres == Problemas({Num(1)}, Coefs, {Num(3)})
\* inputs of the runs against the exact solver
\* together with the one-variable problem whose right-hand side is the
\* tolerance itself: maximise x subject to x <= 1e-5
ProblemasFrontera ==
    { [c |-> <<Num(1)>>, A |-> << <<Num(1)>> >>, b |-> <<Epsilon>>] }
ProblemasExactos ==
    Problemas(Objs, Coefs, {Num(3), Num(7), Rat(7, 2)}) \cup ProblemasFrontera

\* components of the answers of an arbitrary solver (all >= 0): an integer,
\* a half, a value just below and one just above an integer, and a value
\* whose fractional part is exactly the tolerance
ValoresX == {Num(3), Rat(7, 2), Rat(2999999, 1000000),
             Rat(3000001, 1000000), Rat(1, 100000)}

RespuestasLibres(c, A, b) ==
    {Fallo} \cup {Optimo(c, x) : x \in Vectores(Len(c), ValoresX)}

---------------------------------------------------------------------------
(* State.                                                                  *)

VARIABLES
    c, A, b, iteracion,   \* the fields of the PlanoDeCorte object
    pc,                   \* position of the script / of resolver
    exito,                \* resultado.success of the last solver call
    solucion, fun,        \* resultado.x and -resultado.fun of this iteration
    idx,                  \* fila_fraccionaria_idx
    ret,                  \* what resolver returned
    out,                  \* the messages printed, in order
    escaped,              \* an exception left the script
    \* history, read by the properties only
    c0, A0, b0,           \* the input the object was constructed from
    Aiter, biter,         \* (A, b) at the start of the current iteration
    calls,                \* solver invocations of this run
    cuts,                 \* the cuts appended in this run, in order
    sels,                 \* the indices selected in this run, in order
    reportes,             \* the (solution, objective) printed by each iteration
    via,                  \* the return statement resolver left through
    run, prev,            \* which run this is, and the first run's record
    oracle                \* the answers the deterministic solver has given

vars == <<c, A, b, iteracion, pc, exito, solucion, fun, idx, ret, out,
          escaped, c0, A0, b0, Aiter, biter, calls, cuts, sels, reportes,
          via, run, prev, oracle>>

obj  == <<c, A, b, iteracion>>
hist == <<c0, A0, b0, Aiter, biter, calls, cuts, sels, reportes, via>>
det  == <<run, prev, oracle>>

None == [some |-> FALSE, x |-> <<>>, fun |-> Zero]
Pair(x, f) == [some |-> TRUE, x |-> x, fun |-> f]

NoPrev == [sels |-> <<>>, cuts |-> <<>>, reportes |-> <<>>, ret |-> None,
           via |-> "", out |-> <<>>]

Init ==
    /\ c = <<>> /\ A = <<>> /\ b = <<>> /\ iteracion = 0
    /\ pc = "input"
    /\ exito = TRUE /\ solucion = <<>> /\ fun = Zero /\ idx = -1
    /\ ret = None /\ out = <<>> /\ escaped = FALSE
    /\ c0 = <<>> /\ A0 = <<>> /\ b0 = <<>>
    /\ Aiter = <<>> /\ biter = <<>>
    /\ calls = 0 /\ cuts = <<>> /\ sels = <<>> /\ reportes = <<>> /\ via = ""
    /\ run = 1 /\ prev = NoPrev /\ oracle = <<>>

---------------------------------------------------------------------------
(* The script: reading the data and constructing the object.               *)

\* a constructor that keeps the constraint set of the object before it
ConstruirCompartido(cc, AA, bb) ==
    [c |-> cc, A |-> IF A = <<>> THEN AA ELSE A,
     b |-> IF b = <<>> THEN bb ELSE b, iteracion |-> 0]

\* a constructor whose counter starts at 1
ConstruirDesdeUno(cc, AA, bb) == [c |-> cc, A |-> AA, b |-> bb, iteracion |-> 1]

\* PlanoDeCorte.__init__
Construir(cc, AA, bb) == [c |-> cc, A |-> AA, b |-> bb, iteracion |-> 0]

\* problema = PlanoDeCorte(c, A, b); problema.resolver() is entered
Arrancar(p) ==
    LET o == Construir(p.c, p.A, p.b)
    IN  /\ c' = o.c /\ A' = o.A /\ b' = o.b /\ iteracion' = o.iteracion
        /\ pc' = "solve"
        /\ exito' = TRUE /\ solucion' = <<>> /\ fun' = Zero /\ idx' = -1
        /\ ret' = None
        /\ c0' = p.c /\ A0' = p.A /\ b0' = p.b
        /\ Aiter' = o.A /\ biter' = o.b
        /\ calls' = 0 /\ cuts' = <<>> /\ sels' = <<>> /\ reportes' = <<>>
        /\ via' = ""

\* every input() parses: the object is constructed and resolver is called
LeerDatos(problemas) ==
    /\ pc = "input"
    /\ \E p \in problemas : Arrancar(p)
    /\ UNCHANGED <<out, escaped, det>>

\* some input() is not numeric: int()/float() raise ValueError, caught by
\* `except ValueError`
EntradaInvalida ==
    /\ pc = "input"
    /\ out' = Append(out, "error_numerico")
    /\ pc' = "exit"
    /\ UNCHANGED <<obj, exito, solucion, fun, idx, ret, escaped, hist, det>>

---------------------------------------------------------------------------
(* resolver.                                                               *)

\* a loop that does not test resultado.success
NoResueltoIgnorado(r) == FALSE

\* if not resultado.success
NoResuelto(r) == ~r.success

\* self.c negated in place for the call
NegadoEnSitio(cc) == [j \in 1..Len(cc) |-> RNeg(cc[j])]

\* self.c after linprog(c=-self.c, ...): the negated vector is a temporary
ObjetivoTrasLlamada(cc) == cc

\* one pass of `while True` up to the solver's answer `r`
Resolver(r) ==
    /\ iteracion' = iteracion + 1
    /\ c' = ObjetivoTrasLlamada(c)
    /\ calls' = calls + 1
    /\ Aiter' = A /\ biter' = b
    /\ exito' = r.success
    /\ IF NoResuelto(r)
       THEN /\ out' = Append(out, "lp_no_resuelto")
            /\ ret' = None
            /\ via' = "lp"
            /\ pc' = "returned"
            /\ UNCHANGED <<solucion, fun, reportes>>
       ELSE /\ solucion' = r.x
            /\ fun' = r.fun
            /\ reportes' = Append(reportes, [x |-> r.x, fun |-> r.fun])
            /\ pc' = "check"
            /\ UNCHANGED <<out, ret, via>>
    /\ UNCHANGED <<A, b, idx, escaped, c0, A0, b0, cuts, sels>>

\* against a solver that may answer anything
ResolverLibre ==
    /\ pc = "solve"
    /\ \E r \in RespuestasLibres(c, A, b) : Resolver(r)
    /\ UNCHANGED det

\* against a solver that returns a true optimum
ResolverExacto ==
    /\ pc = "solve"
    /\ \E r \in RespuestasExactas(c, A, b) : Resolver(r)
    /\ UNCHANGED det

\* against a deterministic solver: a function of (c, A, b), of which
\* `oracle` is the part asked for so far
ResolverDeterminista ==
    /\ pc = "solve"
    /\ LET k == <<c, A, b>>
       IN  IF k \in DOMAIN oracle
           THEN Resolver(oracle[k]) /\ oracle' = oracle
           ELSE \E r \in RespuestasLibres(c, A, b) :
                    Resolver(r) /\ oracle' = oracle @@ (k :> r)
    /\ UNCHANGED <<run, prev>>

\* if self.es_entero(solucion): return solucion, -resultado.fun
Verificar ==
    /\ pc = "check"
    /\ IF es_entero(solucion)
       THEN /\ out' = Append(out, "solucion_entera")
            /\ ret' = Pair(solucion, fun)
            /\ via' = "entero"
            /\ pc' = "returned"
       ELSE /\ pc' = "select"
            /\ UNCHANGED <<out, ret, via>>
    /\ UNCHANGED <<obj, exito, solucion, fun, idx, escaped, c0, A0, b0,
                   Aiter, biter, calls, cuts, sels, reportes, det>>

\* the scan; if fila_fraccionaria_idx == -1: return solucion, -resultado.fun
Elegir ==
    /\ pc = "select"
    /\ idx' = Seleccionar(solucion)
    /\ IF idx' = -1
       THEN /\ out' = Append(out, "sin_fraccionarias")
            /\ ret' = Pair(solucion, fun)
            /\ via' = "sinfrac"
            /\ pc' = "returned"
            /\ UNCHANGED sels
       ELSE /\ sels' = Append(sels, idx')
            /\ pc' = "cut"
            /\ UNCHANGED <<out, ret, via>>
    /\ UNCHANGED <<obj, exito, solucion, fun, escaped, c0, A0, b0, Aiter,
                   biter, calls, cuts, reportes, det>>

\* corte = -(tableau_fila - floor(tableau_fila)),
\* nuevo_b = -(solucion[idx] - floor(solucion[idx]))
CorteGomory(M, x, i) ==
    LET tableau_fila == Inv(M)[i + 1]
    IN  [coef |-> [j \in 1..Len(tableau_fila) |->
                      RNeg(Fraccion(tableau_fila[j]))],
         rhs  |-> RNeg(Fraccion(x[i + 1]))]

\* the cut put in front of the rows instead of after them
AnadirDelante(M, v, corte) ==
    [A |-> <<corte.coef>> \o M, b |-> <<corte.rhs>> \o v]

\* the cut written over the last row instead of after it
Reemplazar(M, v, corte) ==
    [A |-> [M EXCEPT ![Len(M)] = corte.coef],
     b |-> [v EXCEPT ![Len(v)] = corte.rhs]]

\* self.A = np.vstack([self.A, corte]); self.b = np.append(self.b, nuevo_b)
Anadir(M, v, corte) == [A |-> Append(M, corte.coef), b |-> Append(v, corte.rhs)]

\* a failing path that hands back the fractional solution it has
RetornoMejorEsfuerzo(x, f) == Pair(x, f)

\* except np.linalg.LinAlgError: ... return None
RetornoSinCorte(x, f) == None

\* the try block and the append
Cortar ==
    /\ pc = "cut"
    /\ IF ~Invertible(A)
       THEN /\ out' = Append(out, "error_matriz")
            /\ ret' = RetornoSinCorte(solucion, fun)
            /\ via' = "matriz"
            /\ pc' = "returned"
            /\ UNCHANGED <<A, b, cuts>>
       ELSE LET corte == CorteGomory(A, solucion, idx)
                nuevo == Anadir(A, b, corte)
            IN  /\ A' = nuevo.A
                /\ b' = nuevo.b
                /\ cuts' = Append(cuts, corte)
                /\ pc' = "solve"
                /\ UNCHANGED <<out, ret, via>>
    /\ UNCHANGED <<c, iteracion, exito, solucion, fun, idx, escaped, c0, A0,
                   b0, Aiter, biter, calls, sels, reportes, det>>

---------------------------------------------------------------------------
(* The script after resolver returns.                                      *)

\* handlers that catch ValueError only
SoloValueError(r) == FALSE

\* `solucion_optima, valor_optimo = problema.resolver()` raises TypeError
\* when resolver returned None; TRUE iff the script's handlers catch what
\* unpacking `r` raises (`except Exception` does)
Capturada(r) == TRUE

Informar ==
    /\ pc = "returned"
    /\ IF ~ret.some
       THEN IF Capturada(ret)
            THEN out' = Append(out, "error_inesperado") /\ escaped' = escaped
            ELSE out' = out /\ escaped' = TRUE
       ELSE out' = Append(out, "resultados_finales") /\ escaped' = escaped
    /\ pc' = "exit"
    /\ UNCHANGED <<obj, exito, solucion, fun, idx, ret, hist, det>>

\* a second run from the same input: a new object is constructed from the
\* data read and resolver is called on it
Reiniciar ==
    /\ pc = "exit" /\ run = 1 /\ c0 # <<>>
    /\ prev' = [sels |-> sels, cuts |-> cuts, reportes |-> reportes,
                ret |-> ret, via |-> via, out |-> out]
    /\ run' = 2
    /\ Arrancar([c |-> c0, A |-> A0, b |-> b0])
    /\ out' = <<>>
    /\ UNCHANGED <<escaped, oracle>>

---------------------------------------------------------------------------
(* Specifications.                                                         *)

Next ==
    \/ LeerDatos(ProblemasLibres)
    \/ EntradaInvalida
    \/ ResolverLibre
    \/ Verificar
    \/ Elegir
    \/ Cortar
    \/ Informar

\* every run against a solver that may answer anything
Spec == Init /\ [][Next]_vars

NextExacto ==
    \/ LeerDatos(ProblemasExactos)
    \/ EntradaInvalida
    \/ ResolverExacto
    \/ Verificar
    \/ Elegir
    \/ Cortar
    \/ Informar

\* every run against a solver that returns a true optimum
SpecExacto == Init /\ [][NextExacto]_vars

NextDeterminista ==
    \/ LeerDatos(ProblemasLibres)
    \/ EntradaInvalida
    \/ ResolverDeterminista
    \/ Verificar
    \/ Elegir
    \/ Cortar
    \/ Informar
    \/ Reiniciar

\* two runs from the same input against one deterministic solver
SpecDeterminista == Init /\ [][NextDeterminista]_vars

---------------------------------------------------------------------------
(* Properties.                                                             *)

\* the distance from x to the nearest integer
Distancia(x) == RAbs(RSub(x, Round(x)))

Terminado == pc \in {"returned", "exit"}
Exitoso == Terminado /\ ret.some

IsPrefix(s, t) == Len(s) <= Len(t) /\ SubSeq(t, 1, Len(s)) = s

\* C1: whenever resolver returns a solution, through the integrality test
\* or through the "no fractional variable" return, every component of the
\* returned vector is at distance at most 1e-5 from an integer.
C1_Integralidad ==
    ret.some => \A i \in 1..Len(ret.x) : RLeq(Distancia(ret.x[i]), Epsilon)

\* a solution returned through the "no fractional variable" return
C1_Witness == ret.some /\ via = "sinfrac" /\ Len(ret.x) = 2

\* one step of a run, as C2 wants it
C2_Paso ==
    /\ pc' = "solve" => Len(A') = Len(b')
    /\ pc # "input" =>
          IF pc = "cut" /\ pc' = "solve"
          THEN /\ Len(A') = Len(A) + 1 /\ IsPrefix(A, A')
               /\ Len(b') = Len(b) + 1 /\ IsPrefix(b, b')
          ELSE A' = A /\ b' = b

\* C2: the constraint set is append-only.  A and b change only in the
\* cutting step, which puts exactly one row after the rows of A and one
\* entry after the entries of b and leaves the others where they were; and
\* whenever the solver is about to be called A has as many rows as b has
\* entries.
C2_SoloAnade == [][C2_Paso]_vars

\* a cut has been appended to the input and the solver is called again
C2_Witness ==
    /\ pc = "solve" /\ Len(cuts) = 1
    /\ A = Append(A0, cuts[1].coef) /\ b = Append(b0, cuts[1].rhs)

\* one step of a run, as C3 wants it
C3_Paso ==
    /\ (pc = "solve" /\ ~exito') =>
          /\ pc' = "returned" /\ ~ret'.some
          /\ A' = A /\ b' = b /\ cuts' = cuts
          /\ Len(cuts') = calls' - 1
          /\ (calls' = 1 => cuts' = <<>> /\ A' = A0' /\ b' = b0')
    /\ ~exito =>
          /\ pc = "returned" /\ pc' = "exit"
          /\ calls' = calls /\ A' = A /\ b' = b /\ cuts' = cuts
          /\ ~ret'.some

\* C3: when the solver reports a non-optimal status resolver fails at once:
\* that step returns None and appends nothing, nothing but the script's
\* exit follows, with no further solver call; and when it is the first
\* call that fails no cut was made and (A, b) are the input.
C3_FalloDelSolver == [][C3_Paso]_vars

\* the solver failed on the first call and the script is over
C3_Witness ==
    /\ ~exito /\ calls = 1 /\ pc = "exit"
    /\ A = A0 /\ b = b0 /\ cuts = <<>> /\ ~ret.some

\* one step of a run, as C4 wants it
C4_Paso ==
    (pc = "cut" /\ ~Invertible(A)) =>
        /\ pc' = "returned" /\ ~ret'.some
        /\ A' = A /\ b' = b /\ cuts' = cuts
        /\ A' = Aiter' /\ b' = biter'

\* C4: when a cut is needed and A is not square or not invertible, the
\* cutting step returns None and appends nothing: A and b are what they
\* were when the iteration began.
C4_MatrizNoInvertible == [][C4_Paso]_vars

\* the inversion of a square singular matrix has failed
C4_Witness ==
    /\ via = "matriz" /\ IsSquare(A) /\ ~Invertible(A)
    /\ ~ret.some /\ A = A0 /\ cuts = <<>>

\* C5: a failed run (solver failure or inversion failure) returns no
\* solution, and the script then prints a message, never the final
\* report, and no exception leaves it.
C5_SinSalvamento ==
    /\ ~escaped
    /\ via \in {"lp", "matriz"} =>
          /\ ~ret.some
          /\ "resultados_finales" \notin {out[i] : i \in 1..Len(out)}
          /\ pc = "exit" => out # <<>> /\ out[Len(out)] = "error_inesperado"

\* a run that failed in the inversion has left the script
C5_Witness == pc = "exit" /\ via = "matriz" /\ Len(out) = 2

\* C6: es_entero(x) is false iff some component has a fractional part
\* x_i - floor(x_i) >= 1e-5.
C6_Consistencia ==
    (calls > 0 /\ exito) =>
        (~es_entero(solucion) <=>
            \E i \in 1..Len(solucion) : RLeq(Epsilon, Fraccion(solucion[i])))

\* C7: against an exact solver the objective values reported by
\* successive iterations never increase.
C7_ObjetivoNoCreciente ==
    \A i \in 1..(Len(reportes) - 1) :
        RLeq(reportes[i + 1].fun, reportes[i].fun)

\* a second relaxation has been solved, over the constraints plus a cut, and
\* its objective is strictly smaller
C7_Witness ==
    /\ Len(reportes) = 2 /\ Len(cuts) = 1
    /\ RLess(reportes[2].fun, reportes[1].fun)

\* integral within the tolerance: every distance below 1e-5
Entera(x) == \A i \in 1..Len(x) : RLess(Distancia(x[i]), Epsilon)

\* the run was started on c=[1,1], A=[[1,0],[0,1]], b=[3,3]
Escenario1 ==
    /\ c0 = <<Num(1), Num(1)>>
    /\ A0 = << <<Num(1), Num(0)>>, <<Num(0), Num(1)>> >>
    /\ b0 = <<Num(3), Num(3)>>

\* C8: against an exact solver, when the first relaxation solution is
\* integral resolver returns it and its objective through the integrality
\* test of iteration 1, after one solver call and no cut; for c=[1,1],
\* A=[[1,0],[0,1]], b=[3,3] it returns x=[3,3] with objective 6.
C8_EnteraAlPrimerPaso ==
    /\ (Terminado /\ Len(reportes) >= 1 /\ Entera(reportes[1].x)) =>
          /\ ret = Pair(reportes[1].x, reportes[1].fun)
          /\ ret.fun = Dot(c0, ret.x)
          /\ via = "entero"
          /\ iteracion = 1 /\ calls = 1 /\ cuts = <<>>
          /\ A = A0 /\ b = b0
    /\ (Terminado /\ Escenario1) =>
          /\ ret = Pair(<<Num(3), Num(3)>>, Num(6))
          /\ calls = 1 /\ cuts = <<>> /\ A = A0 /\ b = b0

\* the run on c=[1,1], A=[[1,0],[0,1]], b=[3,3] has returned
C8_Witness == Exitoso /\ Escenario1 /\ pc = "exit"

\* the run was started on c=[1], A=[[2]], b=[7]
Escenario2 ==
    c0 = <<Num(1)>> /\ A0 = << <<Num(2)>> >> /\ b0 = <<Num(7)>>

\* C9: for c=[1], A=[[2]], b=[7] against an exact solver the run reports
\* x=[3.5] (objective 3.5), selects index 0, appends one cut, reports x=[3]
\* (objective 3) and ends in success.
C9_Escenario2 ==
    (Terminado /\ Escenario2) =>
        /\ reportes = << [x |-> <<Rat(7, 2)>>, fun |-> Rat(7, 2)],
                         [x |-> <<Num(3)>>, fun |-> Num(3)] >>
        /\ sels = <<0>>
        /\ Len(cuts) = 1
        /\ ret = Pair(<<Num(3)>>, Num(3))

ParteFraccionaria(x, i) == RSub(x[i + 1], Floor(x[i + 1]))

\* what the scan is to return for x: the lowest index among those whose
\* fractional part is the largest, if that part exceeds 1e-5; -1 otherwise
IndiceEsperado(x, i) ==
    IF \A j \in 0..(Len(x) - 1) : RLeq(ParteFraccionaria(x, j), Epsilon)
    THEN i = -1
    ELSE /\ i \in 0..(Len(x) - 1)
         /\ RLess(Epsilon, ParteFraccionaria(x, i))
         /\ \A j \in 0..(Len(x) - 1) :
                RLeq(ParteFraccionaria(x, j), ParteFraccionaria(x, i))
         /\ \A j \in 0..(i - 1) :
                RLess(ParteFraccionaria(x, j), ParteFraccionaria(x, i))

\* C11: the scan returns the index of the component with the largest
\* fractional part among those above 1e-5, the lowest such index when
\* several are equal, and -1 exactly when no fractional part is above 1e-5;
\* for every solution the solver hands back, and for the index the run
\* goes on with.
C11_Selector ==
    /\ (calls > 0 /\ exito) => IndiceEsperado(solucion, Seleccionar(solucion))
    /\ (pc = "cut" \/ via = "sinfrac") => IndiceEsperado(solucion, idx)

\* the run goes on with index 0 of two components whose fractional parts
\* are equal
C11_Witness ==
    /\ pc = "cut" /\ idx = 0 /\ Len(solucion) = 2
    /\ ParteFraccionaria(solucion, 0) = ParteFraccionaria(solucion, 1)

\* C12: whenever the scan hands an index to the cutting step, that
\* component of the solution is itself at distance at least 1e-5 from the
\* nearest integer.
C12_ComponenteNoEntera ==
    pc = "cut" => RLeq(Epsilon, Distancia(solucion[idx + 1]))

\* C13: every cut appended excludes the solution of the iteration that
\* derived it: coef . x > rhs.
C13_CorteExcluye ==
    \A k \in 1..Len(cuts) :
        RLess(cuts[k].rhs, Dot(cuts[k].coef, reportes[k].x))

\* C14: whenever es_entero rejects a solution the scan finds an index, so
\* resolver never leaves through the "no fractional variable" return.
C14_RamaInalcanzable == via # "sinfrac"

\* C15: the counter is 0 before the run; it always equals the number of
\* solver invocations made, one per iteration; and once the solver has been
\* invoked that number is the number of cuts appended plus one, until the
\* next cut is appended and the solver is about to be invoked again.
C15_Contador ==
    /\ iteracion = calls
    /\ (pc = "solve" /\ cuts = <<>>) => iteracion = 0
    /\ pc = "solve" => calls = Len(cuts)
    /\ (calls > 0 /\ pc # "solve") => iteracion = Len(cuts) + 1

\* the solver has been invoked for the second time, after one cut
C15_Witness == pc = "check" /\ iteracion = 2 /\ calls = 2 /\ Len(cuts) = 1

\* one step of a run, as C16 wants it
C16_Paso ==
    pc # "input" =>
        /\ c' = c
        /\ ~(pc = "cut" /\ pc' = "solve") => (A' = A /\ b' = b)

\* C16: during a run c is never modified, and A and b are modified only by
\* the step that appends a cut: solving, checking, selecting, returning a
\* solution and returning None leave c, A and b as they were.
C16_Marco == [][C16_Paso]_vars

\* a run that appended a cut is over: c is the input, A and b are not
C16_Witness ==
    /\ pc = "exit" /\ Len(cuts) = 1
    /\ c = c0 /\ A # A0 /\ b # b0

\* the counting half of C17: two solver calls and one cut at most
Cota == calls <= 2 /\ Len(cuts) <= 1

\* C17: a run makes at most two solver calls and appends at most one cut,
\* the matrix after a cut having one more row than columns; a run that
\* appended a cut ends with a solution only if the second relaxation
\* solution is integral, and with None otherwise.
C17_CotaDeTerminacion ==
    /\ Cota
    /\ (pc = "cut" /\ Len(cuts) = 1) => ~Invertible(A)
    /\ (Terminado /\ Len(cuts) = 1) => (ret.some <=> (exito /\ Entera(solucion)))

=====
